---- MODULE Spec2Model ----
(***************************************************************************)
(* A model of detector.js (createDetector): a session that wraps an object *)
(* graph in Proxy objects, reports every get / set / apply / construct /   *)
(* deleteProperty through onEvent, tracks the settlement of returned       *)
(* Promises, filters events by accessor and limits the wrapping depth.     *)
(*                                                                         *)
(* Text is modelled as a sequence of one-character strings, so that the    *)
(* accessor rendering and the prefix matching of the filter are computed   *)
(* character by character as the code does.                                *)
(***************************************************************************)
EXTENDS Integers, Sequences, FiniteSets, TLC

(***************************************************************************)
(* Bounds of the model.                                                    *)
(***************************************************************************)
MaxChain == 3
MaxProxies == 3
MaxWrites == 1
MaxAlloc == 1
MaxCalls == 1
MaxPath == 2
MaxTime == 1
MaxThen == 1

(***************************************************************************)
(* Values.  Every JavaScript value the model handles is a record [t, v].   *)
(***************************************************************************)
Undef == [t |-> "undef", v |-> 0]
Prim(n) == [t |-> "prim", v |-> n]
Bool(b) == [t |-> "bool", v |-> b]
Err(s) == [t |-> "err", v |-> s]
Ref(i) == [t |-> "obj", v |-> i]
Px(i) == [t |-> "proxy", v |-> i]

\* typeof v === 'object' || typeof v === 'function', and v !== null
IsObject(v) == v.t \in {"obj", "proxy"}

(***************************************************************************)
(* Text helpers.                                                           *)
(***************************************************************************)
Lower == {"a","b","c","d","e","f","g","h","i","j","k","l","m","n","o","p","q","r","s","t","u","v","w","x","y","z"}
Upper == {"A","B","C","D","E","F","G","H","I","J","K","L","M","N","O","P","Q","R","S","T","U","V","W","X","Y","Z"}
Digit == {"0","1","2","3","4","5","6","7","8","9"}

StartsWith(text, pre) ==
  /\ Len(pre) <= Len(text)
  /\ \A i \in 1..Len(pre) : text[i] = pre[i]

EndsWith(text, suf) ==
  /\ Len(suf) <= Len(text)
  /\ \A i \in 1..Len(suf) : text[Len(text) - Len(suf) + i] = suf[i]

\* a literal RegExp without flags: test() is a substring search
Contains(text, sub) ==
  \E i \in 0..(Len(text) - Len(sub)) :
     \A j \in 1..Len(sub) : text[i + j] = sub[j]

(***************************************************************************)
(* Path segments.  A segment is [k, s]: k = "str" (a string key), "num" (a *)
(* number, s its decimal digits), "sym" (a symbol that is not in the       *)
(* global registry, s its description) or "gsym" (Symbol.for(s)).          *)
(***************************************************************************)
StrSeg(s) == [k |-> "str", s |-> s]
NumSeg(s) == [k |-> "num", s |-> s]
SymSeg(s) == [k |-> "sym", s |-> s]
GSymSeg(s) == [k |-> "gsym", s |-> s]
NoSeg == [k |-> "none", s |-> <<>>]

SYNC_RESULT == StrSeg(<<"[","s","y","n","c","-","r","e","s","u","l","t","]">>)
CONSTRUCTED == StrSeg(<<"[","c","o","n","s","t","r","u","c","t","e","d","]">>)

SymbolDot(name) == SymSeg(<<"S","y","m","b","o","l",".">> \o name)
BUILTIN_SYMBOLS ==
  { SymbolDot(<<"i","t","e","r","a","t","o","r">>),
    SymbolDot(<<"a","s","y","n","c","I","t","e","r","a","t","o","r">>),
    SymbolDot(<<"t","o","P","r","i","m","i","t","i","v","e">>),
    SymbolDot(<<"h","a","s","I","n","s","t","a","n","c","e">>),
    SymbolDot(<<"t","o","S","t","r","i","n","g","T","a","g">>),
    SymbolDot(<<"s","p","e","c","i","e","s">>) }

isBuiltinMethod(prop) ==
  \/ prop \in BUILTIN_SYMBOLS
  \/ prop.k = "str" /\ StartsWith(prop.s, <<"@","@">>)

\* /^[a-zA-Z_$][a-zA-Z0-9_$]*$/
isValidIdentifier(s) ==
  /\ Len(s) >= 1
  /\ s[1] \in Lower \cup Upper \cup {"_", "$"}
  /\ \A i \in 2..Len(s) : s[i] \in Lower \cup Upper \cup Digit \cup {"_", "$"}

\* /^\d+$/
AllDigits(s) == Len(s) >= 1 /\ \A i \in 1..Len(s) : s[i] \in Digit

RECURSIVE JsonEscape(_)
JsonEscape(s) ==
  IF s = <<>> THEN <<>>
  ELSE (IF Head(s) \in {"\"", "\\"} THEN <<"\\", Head(s)>> ELSE <<Head(s)>>)
       \o JsonEscape(Tail(s))

\* JSON.stringify of a string
JsonStringify(s) == <<"\"">> \o JsonEscape(s) \o <<"\"">>

\* one step of the reduce in pathToAccessor
RenderSegment(acc, segment, index) ==
  IF segment.k = "gsym" /\ segment.s # <<>>
    THEN acc \o <<"[","S","y","m","b","o","l",".","f","o","r","(","\"">> \o segment.s \o <<"\"",")","]">>
  ELSE IF segment.k \in {"sym", "gsym"}
    THEN acc \o <<"[">>
             \o (IF segment.s # <<>> THEN segment.s
                 ELSE <<"S","y","m","b","o","l","(",")">>)
             \o <<"]">>
  ELSE IF segment.k = "str" /\ StartsWith(segment.s, <<"[">>) /\ EndsWith(segment.s, <<"]">>)
    THEN acc \o segment.s
  ELSE IF segment.k = "num" \/ AllDigits(segment.s)
    THEN acc \o <<"[">> \o segment.s \o <<"]">>
  ELSE IF index = 0
    THEN (IF isValidIdentifier(segment.s) THEN segment.s
          ELSE <<"[">> \o JsonStringify(segment.s) \o <<"]">>)
  ELSE (IF isValidIdentifier(segment.s) THEN acc \o <<".">> \o segment.s
        ELSE acc \o <<"[">> \o JsonStringify(segment.s) \o <<"]">>)

RECURSIVE RenderFrom(_, _, _)
RenderFrom(acc, path, i) ==
  IF i > Len(path) THEN acc
  ELSE RenderFrom(RenderSegment(acc, path[i], i - 1), path, i + 1)

pathToAccessor(path) ==
  IF Len(path) = 0 THEN <<>> ELSE RenderFrom(<<>>, path, 1)

(***************************************************************************)
(* The filter.  A pattern is [k, s]: k = "str" (a literal), "re" (a        *)
(* RegExp of the literal text s) or "other" (neither: never matches).      *)
(* A pattern list is [on, pats]: on = FALSE is the null of the code.       *)
(***************************************************************************)
Lit(s) == [k |-> "str", s |-> s]
NoList == [on |-> FALSE, pats |-> <<>>]
List(ps) == [on |-> TRUE, pats |-> ps]

\* a match of literals by prefix alone
matchPatternsByPrefix(text, patterns) ==
  IF ~patterns.on \/ Len(patterns.pats) = 0 THEN FALSE
  ELSE \E i \in 1..Len(patterns.pats) :
         LET pattern == patterns.pats[i] IN
           IF pattern.k = "str" THEN StartsWith(text, pattern.s)
           ELSE IF pattern.k = "re" THEN Contains(text, pattern.s)
           ELSE FALSE

matchPatterns(text, patterns) ==
  IF ~patterns.on \/ Len(patterns.pats) = 0 THEN FALSE
  ELSE \E i \in 1..Len(patterns.pats) :
         LET pattern == patterns.pats[i] IN
           IF pattern.k = "str"
             THEN \/ text = pattern.s
                  \/ StartsWith(text, pattern.s \o <<".">>)
                  \/ StartsWith(text, pattern.s \o <<"[">>)
           ELSE IF pattern.k = "re" THEN Contains(text, pattern.s)
           ELSE FALSE

shouldWatch(env, accessor) ==
  IF env.include.on /\ ~matchPatterns(accessor, env.include) THEN FALSE
  ELSE IF env.exclude.on /\ matchPatterns(accessor, env.exclude) THEN FALSE
  ELSE TRUE

(***************************************************************************)
(* Objects.  An original object is [kind, props, body, ps, pv]:            *)
(*   kind  "plain", "func", "promise" or "revoked" (a Proxy of             *)
(*         Proxy.revocable that was made and revoked outside the session); *)
(*   props its own properties, a function from keys to slots; a slot is a  *)
(*         data property (frozen: neither writable nor configurable) or an *)
(*         accessor whose getter throws v and that has no setter;          *)
(*   body  what a function does when called: returns v, throws v, or       *)
(*         returns its this value;                                         *)
(*   ps,pv the state and the settled value of a promise.                   *)
(***************************************************************************)
Data(v) == [kind |-> "data", v |-> v, frozen |-> FALSE]
Frozen(v) == [kind |-> "data", v |-> v, frozen |-> TRUE]
Thrower(e) == [kind |-> "getter", v |-> e, frozen |-> FALSE]

NoBody == [k |-> "none", v |-> Undef]
Plain(props) == [kind |-> "plain", props |-> props, body |-> NoBody, ps |-> "none", pv |-> Undef]
Func(k, v) == [kind |-> "func", props |-> <<>>, body |-> [k |-> k, v |-> v], ps |-> "none", pv |-> Undef]
Pending == [kind |-> "promise", props |-> <<>>, body |-> NoBody, ps |-> "pending", pv |-> Undef]
Revoked == [kind |-> "revoked", props |-> <<>>, body |-> NoBody, ps |-> "none", pv |-> Undef]

TypeError == Err("TypeError")

\* completion records: a call returns v or throws v, in session state st
Ret(st, v) == [st |-> st, k |-> "ret", v |-> v]
Throw(st, v) == [st |-> st, k |-> "throw", v |-> v]

\* the original behind a chain of proxies (a Proxy forwards getPrototypeOf,
\* getOwnPropertyDescriptor, ... to its target)
RECURSIVE DeepTarget(_, _)
DeepTarget(st, v) ==
  IF v.t = "proxy" THEN DeepTarget(st, st.proxies[v.v].target) ELSE v

\* v instanceof Promise throws a TypeError: instanceof asks v for its
\* prototype, which a revoked Proxy refuses
InstanceofThrows(st, v) ==
  LET o == DeepTarget(st, v) IN o.t = "obj" /\ st.objs[o.v].kind = "revoked"

\* v instanceof Promise
isPromise(st, v) ==
  LET o == DeepTarget(st, v) IN o.t = "obj" /\ st.objs[o.v].kind = "promise"

IsCallable(st, v) ==
  LET o == DeepTarget(st, v) IN o.t = "obj" /\ st.objs[o.v].kind = "func"

HasOwn(st, o, prop) == prop \in DOMAIN st.objs[o.v].props

(***************************************************************************)
(* Events.  Besides the fields of the code an event records held: the      *)
(* property event.prop of event.target as onEvent finds it when called.    *)
(***************************************************************************)
Absent == [t |-> "absent", v |-> 0]

\* the own property prop of the original behind target, if there is one
Held(st, target, prop) ==
  LET o == DeepTarget(st, target) IN
    IF o.t = "obj" /\ HasOwn(st, o, prop) THEN st.objs[o.v].props[prop] ELSE Absent

\* onEvent(eventData)
Told(st, eventData) ==
  [st EXCEPT !.events = Append(@, [eventData EXCEPT
                                     !.held = Held(st, eventData.target, eventData.prop)])]

NoBase ==
  [type |-> "none", path |-> <<>>, prop |-> NoSeg, target |-> Undef,
   timestamp |-> 0,
   args |-> Absent, value |-> Absent, result |-> Absent,
   isPromise |-> Absent, error |-> Absent, call |-> 0, held |-> Absent]

\* now is what Date.now() returns
createEventBase(type, path, target, prop, now) ==
  [type |-> type, path |-> path, prop |-> prop, target |-> target,
   timestamp |-> now,
   args |-> Absent, value |-> Absent, result |-> Absent,
   isPromise |-> Absent, error |-> Absent, call |-> 0, held |-> Absent]

emitEventNoCatch(st, eventData) ==
  IF ~shouldWatch(st.env, pathToAccessor(eventData.path)) THEN Ret(st, Undef)
  ELSE LET told == Told(st, eventData) IN
         IF st.env.throws THEN Throw(told, Err("observer")) ELSE Ret(told, Undef)

\* onEvent is called inside try/catch; what it throws goes to console.warn
emitEvent(st, eventData) ==
  IF ~shouldWatch(st.env, pathToAccessor(eventData.path)) THEN Ret(st, Undef)
  ELSE LET told == Told(st, eventData) IN
         IF st.env.throws THEN Ret([told EXCEPT !.warns = @ + 1], Undef)
         ELSE Ret(told, Undef)

\* the catch clause after emitEvent has been called with the error: the
\* error is thrown again
Rethrow(e, error) ==
  IF e.k = "ret" THEN Throw(e.st, error) ELSE e

\* the try block after emitEvent has been called with the result: what
\* emitEvent throws reaches the catch clause as well
Succeeded(e, result, eventBase) ==
  IF e.k = "ret" THEN Ret(e.st, result)
  ELSE Rethrow(emitEvent(e.st, [eventBase EXCEPT !.error = e.v]), e.v)

\* r is the completion of operation(); isPromise(result) is evaluated
\* inside the try block
executeOperation(r, eventBase) ==
  IF r.k = "ret" /\ InstanceofThrows(r.st, r.v)
    THEN Rethrow(emitEvent(r.st, [eventBase EXCEPT !.error = TypeError]), TypeError)
  ELSE IF r.k = "ret"
    THEN Succeeded(emitEvent(r.st, [eventBase EXCEPT !.result = r.v,
                                      !.isPromise = Bool(isPromise(r.st, r.v))]),
                   r.v, eventBase)
    ELSE Rethrow(emitEvent(r.st, [eventBase EXCEPT !.error = r.v]), r.v)

(***************************************************************************)
(* The wrap registry.                                                      *)
(***************************************************************************)
Max(a, b) == IF a >= b THEN a ELSE b

\* a depth check that never stops the wrapping
DepthNeverExceeds(depth, depthLimit) == FALSE

\* depth > depthLimit, with depthLimit = [inf, n]
DepthExceeds(depth, depthLimit) == ~depthLimit.inf /\ depth > depthLimit.n

\* new Proxy(obj, handler) and objToWrapper.set(obj, wrapper), between
\* processingObjects.add(obj) and processingObjects.delete(obj); obj is an
\* object or a function here, of which instanceof could be taken, and for
\* these new Proxy does not throw
NewWrapper(st, obj, path, depth) ==
  LET pid == Len(st.proxies) + 1
      marked == st.processingObjects \cup {obj}
  IN Ret([st EXCEPT
            !.proxies = Append(@, [target |-> obj, path |-> path, depth |-> depth]),
            !.objToWrapper = (obj :> pid) @@ @,
            !.peak = Max(@, Cardinality(marked)),
            !.processingObjects = marked \ {obj}],
         Px(pid))

\* a wrap that does not consult objToWrapper
createProxyNoCache(st, obj, path, depth) ==
  IF ~IsObject(obj) THEN Ret(st, obj)
  ELSE IF DepthExceeds(depth, st.env.depthLimit) THEN Ret(st, obj)
  ELSE IF InstanceofThrows(st, obj) THEN Throw(st, TypeError)
  ELSE IF isPromise(st, obj) THEN Ret(st, obj)
  ELSE IF obj \in st.processingObjects THEN Ret(st, obj)
  ELSE NewWrapper(st, obj, path, depth)

\* a wrap that does not test isPromise(obj)
createProxyOfPromise(st, obj, path, depth) ==
  IF ~IsObject(obj) THEN Ret(st, obj)
  ELSE IF DepthExceeds(depth, st.env.depthLimit) THEN Ret(st, obj)
  ELSE IF obj \in DOMAIN st.objToWrapper THEN Ret(st, Px(st.objToWrapper[obj]))
  ELSE IF obj \in st.processingObjects THEN Ret(st, obj)
  ELSE NewWrapper(st, obj, path, depth)

\* createProxy(obj, path, depth): what it returns, or what the test
\* isPromise(obj), which is outside its try block, throws
createProxy(st, obj, path, depth) ==
  IF ~IsObject(obj) THEN Ret(st, obj)
  ELSE IF DepthExceeds(depth, st.env.depthLimit) THEN Ret(st, obj)
  ELSE IF InstanceofThrows(st, obj) THEN Throw(st, TypeError)
  ELSE IF isPromise(st, obj) THEN Ret(st, obj)
  ELSE IF obj \in DOMAIN st.objToWrapper THEN Ret(st, Px(st.objToWrapper[obj]))
  ELSE IF obj \in st.processingObjects THEN Ret(st, obj)
  ELSE NewWrapper(st, obj, path, depth)

(***************************************************************************)
(* The traps, and the operations of the host they are built on.  Reflect.X *)
(* on a target that is itself a wrapper enters that wrapper's trap.        *)
(***************************************************************************)
\* [[Get]] of an ordinary object
OrdinaryGet(st, o, prop) ==
  IF ~HasOwn(st, o, prop) THEN Ret(st, Undef)
  ELSE LET slot == st.objs[o.v].props[prop] IN
         IF slot.kind = "getter" THEN Throw(st, slot.v) ELSE Ret(st, slot.v)

\* [[Set]] of an ordinary object: the result is that of Reflect.set
OrdinarySet(st, o, prop, value) ==
  IF HasOwn(st, o, prop) /\ ( \/ st.objs[o.v].props[prop].kind = "getter"
                              \/ st.objs[o.v].props[prop].frozen )
    THEN Ret(st, Bool(FALSE))
  ELSE Ret([st EXCEPT !.objs[o.v].props = (prop :> Data(value)) @@ @], Bool(TRUE))

\* [[Delete]] of an ordinary object
OrdinaryDelete(st, o, prop) ==
  IF ~HasOwn(st, o, prop) THEN Ret(st, Bool(TRUE))
  ELSE IF st.objs[o.v].props[prop].frozen THEN Ret(st, Bool(FALSE))
  ELSE Ret([st EXCEPT !.objs[o.v].props =
                 [q \in (DOMAIN @) \ {prop} |-> @[q]]], Bool(TRUE))

\* [[Call]] of a function object
OrdinaryCall(st, o, thisArg) ==
  LET body == st.objs[o.v].body IN
    IF st.objs[o.v].kind # "func" THEN Throw(st, TypeError)
    ELSE IF body.k = "throw" THEN Throw(st, body.v)
    ELSE IF body.k = "this" THEN Ret(st, thisArg)
    ELSE Ret(st, body.v)

\* [[Construct]] of a function object: the object the body returns, or else
\* the new instance
OrdinaryConstruct(st, o) ==
  LET body == st.objs[o.v].body
      fresh == Len(st.objs) + 1
  IN IF st.objs[o.v].kind # "func" THEN Throw(st, TypeError)
     ELSE IF body.k = "throw" THEN Throw(st, body.v)
     ELSE IF body.k = "ret" /\ IsObject(body.v) THEN Ret(st, body.v)
     ELSE Ret([st EXCEPT !.objs = Append(@, Plain(<<>>)), !.allocs = @ + 1], Ref(fresh))

\* promise.then(f, g) of who ("tracker": the session, "caller": the code
\* that called the function): a reaction while the promise is pending, a
\* job at once when it is settled
PromiseThen(st, promise, who, eventBase) ==
  LET p == st.objs[promise.v] IN
    IF p.ps = "pending"
      THEN [st EXCEPT !.reactions =
              Append(@, [p |-> promise.v, who |-> who, base |-> eventBase])]
      ELSE [st EXCEPT !.jobs =
              Append(@, [p |-> promise.v, who |-> who, base |-> eventBase,
                         ps |-> p.ps, v |-> p.pv])]

\* promise.then(result => emitEvent(...), error => emitEvent(...))
handlePromiseResult(st, promise, eventBase) ==
  PromiseThen(st, promise, "tracker", eventBase)

\* the [[Get]] invariant of a Proxy: a data property of the target that is
\* neither writable nor configurable is reported with its actual value
GetInvariantBroken(st, target, prop, trapResult) ==
  LET o == DeepTarget(st, target) IN
    /\ HasOwn(st, o, prop)
    /\ st.objs[o.v].props[prop].kind = "data"
    /\ st.objs[o.v].props[prop].frozen
    /\ trapResult # st.objs[o.v].props[prop].v

\* [[Get]] of a Proxy, after its get trap has completed with r
ProxyGet(r, target, prop) ==
  IF r.k = "ret" /\ GetInvariantBroken(r.st, target, prop, r.v)
    THEN Throw(r.st, TypeError)
    ELSE r

\* return createProxy(...), c being the completion of createProxy
Wrapped(c) == c

\* emitEvent(...); return value
ThenReturn(e, value) == IF e.k = "throw" THEN e ELSE Ret(e.st, value)

\* the branch of createGetHandler for a key of isBuiltinMethod, r being the
\* completion of Reflect.get
GetBuiltin(r, eventBase) ==
  IF r.k = "throw" THEN r
  ELSE ThenReturn(emitEvent(r.st, [eventBase EXCEPT !.result = r.v,
                                     !.isPromise = Bool(FALSE)]),
                  r.v)

\* isPromise(value) ? value : createProxy(value, path.concat(prop), depth + 1)
GetResult(r, path, depth) ==
  IF r.k = "throw" \/ isPromise(r.st, r.v) THEN r
  ELSE Wrapped(createProxy(r.st, r.v, path, depth))

\* the end of createApplyHandler, r being the completion of executeOperation
ApplyResult(r, eventBase, path, depth) ==
  IF r.k = "throw" THEN r
  ELSE IF isPromise(r.st, r.v)
    THEN Ret(handlePromiseResult(r.st, r.v, eventBase), r.v)
  ELSE Wrapped(createProxy(r.st, r.v, path, depth))

\* the end of createConstructHandler
ConstructResult(r, path, depth) ==
  IF r.k = "throw" THEN r
  ELSE Wrapped(createProxy(r.st, r.v, path, depth))

RECURSIVE ReflectGet(_, _, _), GetTrap(_, _, _)
RECURSIVE ReflectSet(_, _, _, _), SetTrap(_, _, _, _)
RECURSIVE ReflectDelete(_, _, _), DeleteTrap(_, _, _)
RECURSIVE ReflectApply(_, _, _), ApplyTrap(_, _, _)
RECURSIVE ReflectConstruct(_, _), ConstructTrap(_, _)

\* createGetHandler(path, depth) of wrapper pid
GetTrap(st, pid, prop) ==
  LET px == st.proxies[pid]
      eventBase == createEventBase("get", Append(px.path, prop), px.target, prop, st.now)
  IN IF isBuiltinMethod(prop)
       THEN GetBuiltin(ReflectGet(st, px.target, prop), eventBase)
       ELSE GetResult(executeOperation(ReflectGet(st, px.target, prop), eventBase),
                      Append(px.path, prop), px.depth + 1)

ReflectGet(st, target, prop) ==
  IF target.t = "proxy"
    THEN ProxyGet(GetTrap(st, target.v, prop), target, prop)
    ELSE OrdinaryGet(st, target, prop)

\* return Reflect.set(target, prop, value, receiver), after emitEvent
SetResult(e, target, prop, value) ==
  IF e.k = "throw" THEN e ELSE ReflectSet(e.st, target, prop, value)

\* emitEvent after the write w has completed
EmitAfter(w, eventData) ==
  IF w.k = "throw" THEN w ELSE ThenReturn(emitEvent(w.st, eventData), w.v)

\* a set trap that writes first and reports afterwards
SetTrapWriteFirst(st, pid, prop, value) ==
  LET px == st.proxies[pid] IN
    EmitAfter(ReflectSet(st, px.target, prop, value),
              [createEventBase("set", Append(px.path, prop), px.target, prop, st.now)
                 EXCEPT !.value = value])

\* createSetHandler(path) of wrapper pid
SetTrap(st, pid, prop, value) ==
  LET px == st.proxies[pid] IN
    SetResult(emitEvent(st, [createEventBase("set", Append(px.path, prop), px.target, prop, st.now)
                               EXCEPT !.value = value]),
              px.target, prop, value)

ReflectSet(st, target, prop, value) ==
  IF target.t = "proxy" THEN SetTrap(st, target.v, prop, value)
  ELSE OrdinarySet(st, target, prop, value)

\* return Reflect.deleteProperty(target, prop), after emitEvent
DeleteResult(e, target, prop) ==
  IF e.k = "throw" THEN e ELSE ReflectDelete(e.st, target, prop)

\* a deleteProperty trap that deletes first and reports afterwards
DeleteTrapDeleteFirst(st, pid, prop) ==
  LET px == st.proxies[pid] IN
    EmitAfter(ReflectDelete(st, px.target, prop),
              createEventBase("deleteProperty", Append(px.path, prop), px.target, prop,
                              st.now))

\* createDeleteHandler(path) of wrapper pid
DeleteTrap(st, pid, prop) ==
  LET px == st.proxies[pid] IN
    DeleteResult(emitEvent(st, createEventBase("deleteProperty", Append(px.path, prop),
                                               px.target, prop, st.now)),
                 px.target, prop)

ReflectDelete(st, target, prop) ==
  IF target.t = "proxy" THEN DeleteTrap(st, target.v, prop)
  ELSE OrdinaryDelete(st, target, prop)

\* createApplyHandler(path, depth) of wrapper pid; argsList is empty
ApplyTrap(st, pid, thisArg) ==
  LET px == st.proxies[pid]
      eventBase == [createEventBase("apply", px.path, px.target, NoSeg, st.now)
                      EXCEPT !.args = Undef, !.call = st.call]
  IN ApplyResult(executeOperation(ReflectApply(st, px.target, thisArg), eventBase),
                 eventBase, Append(px.path, SYNC_RESULT), px.depth + 1)

ReflectApply(st, target, thisArg) ==
  IF target.t = "proxy" THEN ApplyTrap(st, target.v, thisArg)
  ELSE OrdinaryCall(st, target, thisArg)

\* createConstructHandler(path, depth) of wrapper pid
ConstructTrap(st, pid) ==
  LET px == st.proxies[pid]
      eventBase == [createEventBase("construct", px.path, px.target, NoSeg, st.now)
                      EXCEPT !.args = Undef, !.call = st.call]
  IN ConstructResult(executeOperation(ReflectConstruct(st, px.target), eventBase),
                     Append(px.path, CONSTRUCTED), px.depth + 1)

ReflectConstruct(st, target) ==
  IF target.t = "proxy" THEN ConstructTrap(st, target.v)
  ELSE OrdinaryConstruct(st, target)

(***************************************************************************)
(* Inputs: the object graphs handed to createDetector, the option objects, *)
(* and the keys and values the caller uses.                                *)
(***************************************************************************)
KA == StrSeg(<<"a">>)
KB == StrSeg(<<"b">>)
KR == StrSeg(<<"@","@","r">>)
Keys == {KA, KB, KR}

Boom == Err("boom")

\* A.b = B, B.a = A
GraphCycle ==
  << Plain((KA :> Data(Prim(1))) @@ (KB :> Data(Ref(2)))),
     Plain((KA :> Data(Ref(1)))) >>

\* one object under two keys of the root
GraphShared ==
  << Plain((KA :> Data(Ref(2))) @@ (KB :> Data(Ref(2)))),
     Plain((KA :> Data(Prim(5)))) >>

\* a function that returns a promise, itself the target
GraphDeferred ==
  << Func("ret", Ref(2)),
     Pending >>

\* a method that throws, and one that returns its this value
GraphCalls ==
  << Plain((KA :> Data(Ref(2))) @@ (KB :> Data(Ref(3)))),
     Func("throw", Boom),
     Func("this", Undef) >>

\* a revoked Proxy, itself the target
GraphRevoked == << Revoked >>

\* two methods, each returning a promise of its own
GraphTwoDeferred ==
  << Plain((KA :> Data(Ref(2))) @@ (KB :> Data(Ref(3)))),
     Func("ret", Ref(4)),
     Func("ret", Ref(5)),
     Pending,
     Pending >>

\* a promise as the value of a property
GraphHeld ==
  << Plain((KA :> Data(Ref(2)))),
     Pending >>

\* a promise, itself the target
GraphPending == << Pending >>

\* read-only properties and throwing getters, on a cycle
GraphFrozen ==
  << Plain((KA :> Frozen(Ref(2))) @@ (KB :> Thrower(Boom)) @@ (KR :> Thrower(Boom))),
     Plain((KA :> Frozen(Prim(5))) @@ (KB :> Data(Ref(1)))) >>

NoOpts ==
  [enable |-> Undef, enabled |-> Undef, depthLimit |-> Undef,
   include |-> NoList, exclude |-> NoList]

TextA == <<"a">>
TextB == <<"b">>
TextAB == <<"a", ".", "b">>

\* the graphs, each with the option objects it is instrumented with
Scenarios ==
  ({GraphCycle} \X { NoOpts,
                     [NoOpts EXCEPT !.depthLimit = Prim(-1)],
                     [NoOpts EXCEPT !.depthLimit = Prim(1)],
                     [NoOpts EXCEPT !.depthLimit = Prim(2)],
                     [NoOpts EXCEPT !.include = List(<<Lit(TextB)>>)] })
  \cup
  ({GraphShared} \X { NoOpts,
                      [NoOpts EXCEPT !.depthLimit = Prim(1)],
                      [NoOpts EXCEPT !.include = List(<<Lit(TextA)>>)],
                      [NoOpts EXCEPT !.include = List(<<Lit(TextA)>>),
                                     !.exclude = List(<<Lit(TextAB)>>)] })
  \cup
  ({GraphDeferred} \X { NoOpts,
                        [NoOpts EXCEPT !.include = List(<<>>)],
                        [NoOpts EXCEPT !.enable = Bool(FALSE)] })
  \cup
  ({GraphCalls} \X { NoOpts,
                     [NoOpts EXCEPT !.enabled = Bool(FALSE)] })
  \cup
  ({GraphFrozen} \X { NoOpts,
                      [NoOpts EXCEPT !.depthLimit = Prim(0)] })
  \cup
  ({GraphRevoked, GraphHeld, GraphPending} \X { NoOpts })

\* the graphs of promises, each with its option objects
ScenariosAsync ==
  {GraphTwoDeferred} \X { NoOpts, [NoOpts EXCEPT !.enable = Bool(FALSE)] }

Targets == {Ref(1), Prim(7)}

(***************************************************************************)
(* The state.                                                              *)
(*   objs, proxies        the original objects and the wrappers created    *)
(*   objToWrapper         the WeakMap from a wrapped value to its wrapper  *)
(*   processingObjects    the WeakSet of values being wrapped              *)
(*   reactions, jobs      then-callbacks waiting for a promise, and those  *)
(*                        queued to run                                    *)
(*   env                  depthLimit, include, exclude of the session, and *)
(*                        whether onEvent throws                           *)
(*   events, warns        the events onEvent received, and the messages of *)
(*                        console.warn, during the last operation          *)
(*   phase, opts, root    the options object, the call of createDetector   *)
(*                        and what it returned                             *)
(*   cursor, cursorThis   the value the caller holds, and the value it was *)
(*                        read from                                        *)
(*   chain                the operations by which the caller reached it    *)
(*   last                 the last operation and its outcome               *)
(*   call, callLog        the calls that returned a promise, with the      *)
(*                        events reported for each                         *)
(*   peak, allocs         the largest size of processingObjects during the *)
(*                        last operation; the objects constructed          *)
(*   writes               the writes and deletions the caller has made     *)
(*   now                  the time, as Date.now() tells it                 *)
(*   loud                 the same operations on the same graph with an    *)
(*                        onEvent that throws on every event               *)
(***************************************************************************)
VARIABLES objs, proxies, objToWrapper, processingObjects, reactions, jobs,
          env, events, warns, phase, opts, root, cursor, cursorThis, chain,
          last, call, callLog, peak, allocs, writes, now, loud

vars == << objs, proxies, objToWrapper, processingObjects, reactions, jobs,
           env, events, warns, phase, opts, root, cursor, cursorThis, chain,
           last, call, callLog, peak, allocs, writes, now, loud >>

Cur ==
  [objs |-> objs, proxies |-> proxies, objToWrapper |-> objToWrapper,
   processingObjects |-> processingObjects, reactions |-> reactions,
   jobs |-> jobs, env |-> env, events |-> events, warns |-> warns,
   phase |-> phase, opts |-> opts, root |-> root, cursor |-> cursor,
   cursorThis |-> cursorThis, chain |-> chain, last |-> last,
   call |-> call, callLog |-> callLog, peak |-> peak, allocs |-> allocs,
   writes |-> writes, now |-> now]

Commit(S) ==
  /\ objs' = S.objs
  /\ proxies' = S.proxies
  /\ objToWrapper' = S.objToWrapper
  /\ processingObjects' = S.processingObjects
  /\ reactions' = S.reactions
  /\ jobs' = S.jobs
  /\ env' = S.env
  /\ events' = S.events
  /\ warns' = S.warns
  /\ phase' = S.phase
  /\ opts' = S.opts
  /\ root' = S.root
  /\ cursor' = S.cursor
  /\ cursorThis' = S.cursorThis
  /\ chain' = S.chain
  /\ last' = S.last
  /\ call' = S.call
  /\ callLog' = S.callLog
  /\ peak' = S.peak
  /\ allocs' = S.allocs
  /\ writes' = S.writes
  /\ now' = S.now

NoLast ==
  [op |-> "none", prop |-> NoSeg, arg |-> Absent, via |-> Undef, this |-> Undef,
   chain |-> <<>>, k |-> "none", v |-> Undef, refk |-> "none", refv |-> Undef,
   refSame |-> TRUE, under |-> Absent, created |-> 0, before |-> Absent,
   onEventIsFunction |-> TRUE]

Infinity == [inf |-> TRUE, n |-> 0]

Start(graph, o, throws) ==
  [objs |-> graph, proxies |-> <<>>, objToWrapper |-> <<>>,
   processingObjects |-> {}, reactions |-> <<>>, jobs |-> <<>>,
   env |-> [depthLimit |-> Infinity, include |-> NoList, exclude |-> NoList,
            throws |-> throws],
   events |-> <<>>, warns |-> 0, phase |-> "new", opts |-> o,
   root |-> Undef, cursor |-> Undef, cursorThis |-> Undef, chain |-> <<>>,
   last |-> NoLast, call |-> 0, callLog |-> <<>>,
   peak |-> 0, allocs |-> 0, writes |-> 0, now |-> 0]

Is(S) ==
  /\ objs = S.objs
  /\ proxies = S.proxies
  /\ objToWrapper = S.objToWrapper
  /\ processingObjects = S.processingObjects
  /\ reactions = S.reactions
  /\ jobs = S.jobs
  /\ env = S.env
  /\ events = S.events
  /\ warns = S.warns
  /\ phase = S.phase
  /\ opts = S.opts
  /\ root = S.root
  /\ cursor = S.cursor
  /\ cursorThis = S.cursorThis
  /\ chain = S.chain
  /\ last = S.last
  /\ call = S.call
  /\ callLog = S.callLog
  /\ peak = S.peak
  /\ allocs = S.allocs
  /\ writes = S.writes
  /\ now = S.now

Init ==
  \E sc \in Scenarios :
     /\ Is(Start(sc[1], sc[2], FALSE))
     /\ loud = Start(sc[1], sc[2], TRUE)

(***************************************************************************)
(* The operations, as functions of the state.                              *)
(***************************************************************************)
\* what the observer saw during one operation starts empty
Begin(S) == [S EXCEPT !.events = <<>>, !.warns = 0, !.peak = 0]

\* typeof opts.depthLimit === 'number' ? Math.max(0, opts.depthLimit) : Infinity
DepthLimitOf(o) ==
  IF o.depthLimit.t = "prim" THEN [inf |-> FALSE, n |-> Max(0, o.depthLimit.v)]
  ELSE Infinity

\* const depthLimit, include, exclude of the session
Configure(S, o) ==
  [Begin(S) EXCEPT !.env = [depthLimit |-> DepthLimitOf(o),
                            include |-> o.include, exclude |-> o.exclude,
                            throws |-> S.env.throws]]

\* createDetector has returned value
Returned(S, target, value) ==
  [S EXCEPT !.phase = "live", !.root = value, !.cursor = value,
            !.last = [NoLast EXCEPT !.op = "create", !.arg = target,
                                    !.k = "ret", !.v = value,
                                    !.created = Len(S.proxies)]]

\* createDetector has thrown error
Threw(S, target, error, onEventIsFunction) ==
  [S EXCEPT !.phase = "failed",
            !.last = [NoLast EXCEPT !.op = "create", !.arg = target,
                                    !.k = "throw", !.v = error,
                                    !.onEventIsFunction = onEventIsFunction]]

\* return createProxy(target, [], 0)
ReturnedWrapped(c, target) ==
  IF c.k = "throw" THEN Threw(c.st, target, c.v, TRUE)
  ELSE Returned(c.st, target, c.v)

\* throw new TypeError('onEvent must be a function')
Rejected(S, target) == Threw(S, target, TypeError, FALSE)

\* a createDetector that does not read opts.enable
createDetectorAlways(S, target, onEventIsFunction, o) ==
  IF ~onEventIsFunction THEN Rejected(Begin(S), target)
  ELSE IF ~IsObject(target) THEN Returned(Begin(S), target, target)
  ELSE ReturnedWrapped(createProxy(Configure(S, o), target, <<>>, 0), target)

\* createDetector(target, onEvent, opts)
createDetector(S, target, onEventIsFunction, o) ==
  IF ~onEventIsFunction THEN Rejected(Begin(S), target)
  ELSE IF o.enable = Bool(FALSE) \/ ~IsObject(target)
    THEN Returned(Begin(S), target, target)
  ELSE ReturnedWrapped(createProxy(Configure(S, o), target, <<>>, 0), target)

\* the record of an operation: r its completion through the value the
\* caller holds, ref the completion of the same operation on the original
\* behind it, u the completion of the operation on the wrapper's own target,
\* before the property of the original as it was when the operation began
Outcome(S, op, prop, arg, r, ref, u) ==
  [op |-> op, prop |-> prop, arg |-> arg, via |-> S.cursor, this |-> S.cursorThis,
   chain |-> S.chain, k |-> r.k, v |-> r.v, refk |-> ref.k, refv |-> ref.v,
   refSame |-> (r.st.objs = ref.st.objs),
   under |-> IF S.cursor.t = "proxy" /\ u.k = "ret" THEN u.v ELSE Absent,
   created |-> Len(r.st.proxies) - Len(S.proxies),
   before |-> Held(S, S.cursor, prop)]

TargetOf(S) ==
  IF S.cursor.t = "proxy" THEN S.proxies[S.cursor.v].target ELSE S.cursor

\* the caller holds what the operation returned, reached by one more step
Moved(S, r, this, seg, o) ==
  [r.st EXCEPT !.cursor = IF r.k = "ret" THEN r.v ELSE @,
               !.cursorThis = IF r.k = "ret" THEN this ELSE @,
               !.chain = IF r.k = "ret" THEN Append(@, seg) ELSE @,
               !.last = o]

\* the caller has written through the value it holds
Written(r, o) == [r.st EXCEPT !.writes = @ + 1, !.last = o]

GetDone(S, prop, r, ref, u) ==
  Moved(S, r, S.cursor, prop, Outcome(S, "get", prop, Absent, r, ref, u))

\* cursor[prop]
DoGet(S, prop) ==
  IF ~IsObject(S.cursor) THEN S
  ELSE GetDone(S, prop,
               ReflectGet(Begin(S), S.cursor, prop),
               ReflectGet(Begin(S), DeepTarget(S, S.cursor), prop),
               ReflectGet(Begin(S), TargetOf(S), prop))

SetDone(S, prop, value, r, ref, u) ==
  Written(r, Outcome(S, "set", prop, value, r, ref, u))

\* cursor[prop] = value
DoSet(S, prop, value) ==
  IF ~IsObject(S.cursor) THEN S
  ELSE SetDone(S, prop, value,
               ReflectSet(Begin(S), S.cursor, prop, value),
               ReflectSet(Begin(S), DeepTarget(S, S.cursor), prop, value),
               ReflectSet(Begin(S), TargetOf(S), prop, value))

DeleteDone(S, prop, r, ref, u) ==
  Written(r, Outcome(S, "deleteProperty", prop, Absent, r, ref, u))

\* delete cursor[prop]
DoDelete(S, prop) ==
  IF ~IsObject(S.cursor) THEN S
  ELSE DeleteDone(S, prop,
                  ReflectDelete(Begin(S), S.cursor, prop),
                  ReflectDelete(Begin(S), DeepTarget(S, S.cursor), prop),
                  ReflectDelete(Begin(S), TargetOf(S), prop))

\* the number of events of the given types that onEvent received for a call
CountFor(evs, types, c) ==
  Cardinality({i \in 1..Len(evs) : evs[i].type \in types /\ evs[i].call = c})

\* the paths of the apply events that onEvent received for a call
PathsFor(evs, c) ==
  {evs[i].path : i \in {j \in 1..Len(evs) : evs[j].type = "apply" /\ evs[j].call = c}}

\* a call that returned a promise is entered in callLog
Logged(S, via, r, c) ==
  IF r.k = "ret" /\ isPromise(r.st, r.v)
    THEN [S EXCEPT !.callLog =
            Append(@, [promise |-> r.v, via |-> via,
                       paths |-> PathsFor(r.st.events, c),
                       applied |-> CountFor(r.st.events, {"apply"}, c),
                       resolved |-> 0, rejected |-> 0])]
    ELSE S

ApplyDone(S, c, r, ref, u) ==
  Logged(Moved(S, r, Undef, SYNC_RESULT, Outcome(S, "apply", NoSeg, Absent, r, ref, u)),
         S.cursor, r, c)

\* the session while call number c runs
Calling(S, c) == [Begin(S) EXCEPT !.call = c]

\* cursor(), called as a method of the value it was read from
DoApply(S) ==
  IF ~IsObject(S.cursor) \/ ~IsCallable(S, S.cursor) THEN S
  ELSE ApplyDone(S, Len(S.callLog) + 1,
                 ReflectApply(Calling(S, Len(S.callLog) + 1), S.cursor, S.cursorThis),
                 ReflectApply(Calling(S, Len(S.callLog) + 1), DeepTarget(S, S.cursor),
                              DeepTarget(S, S.cursorThis)),
                 ReflectApply(Calling(S, Len(S.callLog) + 1), TargetOf(S), S.cursorThis))

ConstructDone(S, r, ref, u) ==
  Moved(S, r, Undef, CONSTRUCTED, Outcome(S, "construct", NoSeg, Absent, r, ref, u))

\* new cursor()
DoConstruct(S) ==
  IF ~IsObject(S.cursor) \/ ~IsCallable(S, S.cursor) THEN S
  ELSE ConstructDone(S,
                     ReflectConstruct(Calling(S, 0), S.cursor),
                     ReflectConstruct(Calling(S, 0), DeepTarget(S, S.cursor)),
                     ReflectConstruct(Calling(S, 0), TargetOf(S)))

\* time passes
DoTick(S) == [S EXCEPT !.now = @ + 1, !.last = [NoLast EXCEPT !.op = "tick"]]

\* the caller starts again from what createDetector returned
DoReset(S) == [S EXCEPT !.cursor = S.root, !.cursorThis = Undef, !.chain = <<>>]

RECURSIVE JobsOf(_, _, _, _)
JobsOf(rs, p, ps, v) ==
  IF rs = <<>> THEN <<>>
  ELSE (IF Head(rs).p = p
          THEN <<[p |-> p, who |-> Head(rs).who, base |-> Head(rs).base,
                  ps |-> ps, v |-> v]>>
          ELSE <<>>)
       \o JobsOf(Tail(rs), p, ps, v)

\* promise p is fulfilled or rejected with v: its then-callbacks are queued
DoSettle(S, p, ps, v) ==
  IF p \notin 1..Len(S.objs) \/ S.objs[p].ps # "pending" THEN S
  ELSE [S EXCEPT !.objs[p].ps = ps, !.objs[p].pv = v,
                 !.jobs = @ \o JobsOf(S.reactions, p, ps, v),
                 !.reactions = SelectSeq(@, LAMBDA x : x.p # p),
                 !.last = [NoLast EXCEPT !.op = "settle"]]

\* a then-callback of handlePromiseResult that takes a fulfilment for a
\* rejection and a rejection for a fulfilment
SettlementEventSwapped(job) ==
  IF job.ps = "fulfilled"
    THEN [job.base EXCEPT !.type = "apply:rejected", !.error = job.v,
                          !.isPromise = Bool(TRUE)]
    ELSE [job.base EXCEPT !.type = "apply:resolved", !.result = job.v,
                          !.isPromise = Bool(TRUE)]

\* the event a then-callback of handlePromiseResult builds
SettlementEvent(job) ==
  IF job.ps = "fulfilled"
    THEN [job.base EXCEPT !.type = "apply:resolved", !.result = job.v,
                          !.isPromise = Bool(TRUE)]
    ELSE [job.base EXCEPT !.type = "apply:rejected", !.error = job.v,
                          !.isPromise = Bool(TRUE)]

\* the then-callback has run, e being the completion of its emitEvent
JobDone(e, c) ==
  [e.st EXCEPT
     !.callLog[c].resolved = @ + CountFor(e.st.events, {"apply:resolved"}, c),
     !.callLog[c].rejected = @ + CountFor(e.st.events, {"apply:rejected"}, c),
     !.last = [NoLast EXCEPT !.op = "job", !.k = e.k, !.v = e.v]]

\* the callback of the caller has been called with job.v, as the promise
\* was fulfilled or rejected
Consumed(S, job) ==
  [S EXCEPT !.last = [NoLast EXCEPT !.op = "consumer", !.arg = Ref(job.p),
                                    !.k = job.ps, !.v = job.v]]

\* the next then-callback runs: one of handlePromiseResult, or one of the
\* caller
DoRunJob(S) ==
  IF S.jobs = <<>> THEN S
  ELSE IF Head(S.jobs).who = "caller"
    THEN Consumed([Begin(S) EXCEPT !.jobs = Tail(@)], Head(S.jobs))
  ELSE JobDone(emitEvent([Begin(S) EXCEPT !.jobs = Tail(@)], SettlementEvent(Head(S.jobs))),
               Head(S.jobs).base.call)

\* the callbacks of the caller that wait or are queued
Consumers(S) ==
  Len(SelectSeq(S.reactions, LAMBDA x : x.who = "caller"))
  + Len(SelectSeq(S.jobs, LAMBDA x : x.who = "caller"))

\* cursor.then(f, g), cursor being the promise a call returned
DoThen(S) ==
  IF S.cursor.t # "obj" \/ ~isPromise(S, S.cursor) THEN S
  ELSE [PromiseThen(S, S.cursor, "caller", NoBase)
          EXCEPT !.last = [NoLast EXCEPT !.op = "then", !.arg = S.cursor]]

(***************************************************************************)
(* The actions: each operation is applied to the session and, in the same  *)
(* step, to its twin whose observer throws on every event.                 *)
(***************************************************************************)
Live == phase = "live"

\* the calls that returned promise
CallsOf(S, promise) ==
  Cardinality({c \in 1..Len(S.callLog) : S.callLog[c].promise = promise})

Fits(S) ==
  /\ Len(S.proxies) <= MaxProxies
  /\ S.allocs <= MaxAlloc
  /\ S.writes <= MaxWrites
  /\ \A c \in 1..Len(S.callLog) : CallsOf(S, S.callLog[c].promise) <= MaxCalls
  /\ Len(S.chain) <= MaxChain
  /\ S.now <= MaxTime
  /\ Consumers(S) <= MaxThen

Step(S, Q) ==
  \E N \in {S} :
     /\ Fits(N)
     /\ Commit(N)
     /\ loud' = Q

CreateDetector ==
  /\ phase = "new"
  /\ \E target \in Targets, onEventIsFunction \in BOOLEAN :
        Step(createDetector(Cur, target, onEventIsFunction, opts),
             createDetector(loud, target, onEventIsFunction, opts))

Get ==
  /\ Live /\ IsObject(cursor)
  /\ \E prop \in Keys : Step(DoGet(Cur, prop), DoGet(loud, prop))

Set ==
  /\ Live /\ IsObject(cursor)
  /\ \E prop \in Keys, own \in BOOLEAN :
        Step(DoSet(Cur, prop, IF own THEN root ELSE Prim(9)),
             DoSet(loud, prop, IF own THEN loud.root ELSE Prim(9)))

DeleteProperty ==
  /\ Live /\ IsObject(cursor)
  /\ \E prop \in Keys : Step(DoDelete(Cur, prop), DoDelete(loud, prop))

Apply ==
  /\ Live /\ IsObject(cursor) /\ IsCallable(Cur, cursor)
  /\ Step(DoApply(Cur), DoApply(loud))

Construct ==
  /\ Live /\ IsObject(cursor) /\ IsCallable(Cur, cursor)
  /\ Step(DoConstruct(Cur), DoConstruct(loud))

Reset ==
  /\ Live /\ cursor # root
  /\ Step(DoReset(Cur), DoReset(loud))

Settle ==
  /\ Live
  /\ \E p \in 1..Len(objs), how \in {"fulfilled", "rejected"} :
        /\ objs[p].ps = "pending"
        /\ Step(DoSettle(Cur, p, how, IF how = "fulfilled" THEN Prim(42) ELSE Boom),
                DoSettle(loud, p, how, IF how = "fulfilled" THEN Prim(42) ELSE Boom))

RunJob ==
  /\ Live /\ jobs # <<>>
  /\ Step(DoRunJob(Cur), DoRunJob(loud))

Tick ==
  /\ Live
  /\ Step(DoTick(Cur), DoTick(loud))

Then ==
  /\ Live /\ cursor.t = "obj" /\ isPromise(Cur, cursor)
  /\ Step(DoThen(Cur), DoThen(loud))

Next ==
  \/ CreateDetector
  \/ Get
  \/ Set
  \/ DeleteProperty
  \/ Apply
  \/ Construct
  \/ Reset
  \/ Settle
  \/ RunJob

Spec == Init /\ [][Next]_vars

(***************************************************************************)
(* The sessions over promises: calls that are pending together and settle  *)
(* in any order, callbacks of the caller on the promises returned, and     *)
(* time that passes between the operations.                                *)
(***************************************************************************)
InitAsync ==
  \E sc \in ScenariosAsync :
     /\ Is(Start(sc[1], sc[2], FALSE))
     /\ loud = Start(sc[1], sc[2], TRUE)

NextAsync ==
  \/ CreateDetector
  \/ Get
  \/ Apply
  \/ Reset
  \/ Settle
  \/ RunJob
  \/ Tick
  \/ Then

SpecAsync == InitAsync /\ [][NextAsync]_vars

(***************************************************************************)
(* The pure functions on their own: pathToAccessor is applied to a path,   *)
(* and shouldWatch to the accessor it rendered, for the include and        *)
(* exclude lists of the session.  chain holds the path; last holds what    *)
(* the function returned.                                                  *)
(***************************************************************************)
Text(s) == [t |-> "text", v |-> s]

TextAb == <<"a", "b">>
UserName == <<"u","s","e","r","-","n","a","m","e">>
Bracketed == <<"[", "x", "]">>

\* the segments a path is made of: identifiers, a number, a key of digits,
\* a key that is no identifier, a key in brackets, a marker and a symbol
Segments ==
  { KA, KB, StrSeg(TextAb), NumSeg(<<"2">>), StrSeg(<<"7">>), StrSeg(UserName),
    StrSeg(Bracketed), SYNC_RESULT, SymbolDot(<<"i","t","e","r","a","t","o","r">>) }

\* ['a', 'b', 2, 'c'] and ['a', '[constructed]', 'b']
ExamplePaths ==
  { << KA, KB, NumSeg(<<"2">>), StrSeg(<<"c">>) >>,
    << KA, CONSTRUCTED, KB >> }

Paths == (UNION { [1..n -> Segments] : n \in 0..MaxPath }) \cup ExamplePaths

\* include and exclude as createDetector may be given them
IncludeLists ==
  { NoList, List(<<>>), List(<<Lit(TextA)>>), List(<<Lit(TextB), Lit(TextAB)>>),
    List(<<[k |-> "re", s |-> TextB]>>) }

ExcludeLists ==
  { NoList, List(<<>>), List(<<Lit(TextA)>>), List(<<Lit(TextAB)>>),
    List(<<[k |-> "other", s |-> TextA]>>) }

InitRender ==
  \E path \in Paths, include \in IncludeLists, exclude \in ExcludeLists :
     /\ Is([Start(<<>>, NoOpts, FALSE) EXCEPT
              !.phase = "path", !.chain = path,
              !.env = [depthLimit |-> Infinity, include |-> include,
                       exclude |-> exclude, throws |-> FALSE]])
     /\ loud = Start(<<>>, NoOpts, TRUE)

\* accessor = pathToAccessor(path)
Render ==
  /\ phase = "path"
  /\ phase' = "accessor"
  /\ last' = [NoLast EXCEPT !.op = "pathToAccessor",
                            !.v = Text(pathToAccessor(chain))]
  /\ UNCHANGED << objs, proxies, objToWrapper, processingObjects, reactions,
                  jobs, env, events, warns, opts, root, cursor, cursorThis,
                  chain, call, callLog, peak, allocs, writes, now, loud >>

\* shouldWatch(accessor)
Decide ==
  /\ phase = "accessor"
  /\ phase' = "decided"
  /\ last' = [last EXCEPT !.op = "shouldWatch", !.arg = last.v,
                          !.v = Bool(shouldWatch(env, last.v.v))]
  /\ UNCHANGED << objs, proxies, objToWrapper, processingObjects, reactions,
                  jobs, env, events, warns, opts, root, cursor, cursorThis,
                  chain, call, callLog, peak, allocs, writes, now, loud >>

NextRender ==
  \/ Render
  \/ Decide

SpecRender == InitRender /\ [][NextRender]_vars

(***************************************************************************)
(* The properties.                                                         *)
(***************************************************************************)
Unfiltered == ~env.include.on /\ ~env.exclude.on

ThroughWrapper == last.via.t = "proxy"

\* the events of the last operation that carry error e
Reported(e) == {i \in 1..Len(events) : events[i].error = e}

\* C1: within one session no two wrappers stand for the same wrapped value,
\* the registry maps every wrapped value to that one wrapper, and a wrapper
\* an operation returns is the one the registry holds for its target
C1_IdempotentWrapping ==
  /\ \A i, j \in 1..Len(proxies) :
        proxies[i].target = proxies[j].target => i = j
  /\ \A i \in 1..Len(proxies) :
        /\ proxies[i].target \in DOMAIN objToWrapper
        /\ objToWrapper[proxies[i].target] = i
  /\ (last.k = "ret" /\ last.v.t = "proxy") =>
        /\ last.v.v \in 1..Len(proxies)
        /\ objToWrapper[proxies[last.v.v].target] = last.v.v

\* a read wraps a value that was wrapped before and returns the old wrapper
C1_Witness ==
  /\ last.op = "get" /\ last.k = "ret" /\ ThroughWrapper
  /\ last.v.t = "proxy" /\ last.created = 0
  /\ Len(proxies) >= 2

\* C2: an operation that does not throw on the unwrapped original does not
\* throw through the wrapper, produces the same original value (possibly
\* behind wrappers) and leaves the object graph as the original would
C2_Transparency ==
  (/\ last.op \in {"get", "set", "apply", "construct", "deleteProperty"}
   /\ ThroughWrapper
   /\ last.refk = "ret")
  => /\ last.k = "ret"
     /\ DeepTarget(Cur, last.v) = last.refv
     /\ last.refSame

\* C3: a run whose observer throws on every event returns and throws what
\* the run with a quiet observer does, leaves the same graph and registry,
\* and calls the observer as often; every throw of the observer is warned
\* about once
C3_ObserverIsolation ==
  /\ loud.last.k = last.k
  /\ loud.last.v = last.v
  /\ loud.cursor = cursor
  /\ loud.objs = objs
  /\ loud.proxies = proxies
  /\ loud.objToWrapper = objToWrapper
  /\ loud.reactions = reactions
  /\ loud.jobs = jobs
  /\ Len(loud.events) = Len(events)
  /\ loud.warns = Len(loud.events)

\* a call that throws was reported to an observer that threw as well
C3_Witness ==
  /\ last.op = "apply" /\ last.k = "throw" /\ ThroughWrapper
  /\ last.v = Boom
  /\ loud.warns >= 1
  /\ loud.last.v = Boom

\* C4: when a read, call or construction through a wrapper throws, exactly
\* one event carries the error and the same error reaches the caller, for
\* every key
C4_ErrorReported ==
  (/\ last.op \in {"get", "apply", "construct"}
   /\ ThroughWrapper
   /\ Unfiltered
   /\ last.refk = "throw")
  => /\ last.k = "throw"
     /\ last.v = last.refv
     /\ Cardinality(Reported(last.v)) = 1

\* C5: a call through a wrapper that returns a promise is reported by
\* exactly one apply event, and by exactly one apply:resolved or
\* apply:rejected event once the promise has settled and its callbacks
\* have run, by none while it is pending and never by both
C5_DeferredTracking ==
  \A c \in 1..Len(callLog) :
     (callLog[c].via.t = "proxy" /\ Unfiltered)
     => LET p == objs[callLog[c].promise.v]
            waiting == \E i \in 1..Len(jobs) : jobs[i].base.call = c
        IN /\ callLog[c].applied = 1
           /\ callLog[c].resolved + callLog[c].rejected <= 1
           /\ p.ps = "pending" => callLog[c].resolved + callLog[c].rejected = 0
           /\ (p.ps = "fulfilled" /\ ~waiting) =>
                 callLog[c].resolved = 1 /\ callLog[c].rejected = 0
           /\ (p.ps = "rejected" /\ ~waiting) =>
                 callLog[c].resolved = 0 /\ callLog[c].rejected = 1

\* C6: with an include list, an operation through a wrapper is reported
\* exactly when the chain of accesses by which the caller reached it passes
\* the filter
C6_FilterByAccessChain ==
  (/\ last.op \in {"get", "set", "deleteProperty"}
   /\ ThroughWrapper
   /\ env.include.on)
  => ((events # <<>>) <=>
        shouldWatch(env, pathToAccessor(Append(last.chain, last.prop))))

C8_CycleSafety ==
  (/\ last.op = "get"
   /\ ThroughWrapper
   /\ last.refk = "ret")
  => /\ last.k = "ret"
     /\ peak <= 1

\* C9: a write through a wrapper of path P with key k that passes the
\* filter is reported by exactly one set event with path P + [k] and the
\* written value, and the original then holds the value
C9_WriteReporting ==
  (/\ last.op = "set"
   /\ ThroughWrapper
   /\ last.refv = Bool(TRUE)
   /\ shouldWatch(env, pathToAccessor(Append(proxies[last.via.v].path, last.prop))))
  => /\ Len(events) = 1
     /\ events[1].type = "set"
     /\ events[1].path = Append(proxies[last.via.v].path, last.prop)
     /\ events[1].value = last.arg
     /\ LET o == DeepTarget(Cur, last.via) IN
          /\ HasOwn(Cur, o, last.prop)
          /\ objs[o.v].props[last.prop] = Data(last.arg)

\* C10 as stated: with the option enabled = false the target is returned
\* itself and no event is delivered
C10_EnabledFalse ==
  (opts.enabled = Bool(FALSE) /\ phase = "live")
  => /\ root.t # "proxy"
     /\ events = <<>>

\* C10: with the option enable = false and a function as onEvent the
\* target is returned itself, nothing is wrapped, no event is delivered and
\* no promise is tracked
C10_EnableFalse ==
  (opts.enable = Bool(FALSE) /\ phase = "live")
  => /\ root.t # "proxy"
     /\ last.op = "create" => last.v = last.arg
     /\ proxies = <<>>
     /\ events = <<>>
     /\ reactions = <<>> /\ jobs = <<>>

\* the disabled session hands out the function itself, which is called
C10_Witness ==
  /\ opts.enable = Bool(FALSE)
  /\ last.op = "apply" /\ last.k = "ret"
  /\ last.via = Ref(1)
  /\ events = <<>>

\* C12: no wrapper of the session has a wrapper of the session as its
\* target, also after a wrapper was written into the graph, passed to a
\* call or returned by a function, and one operation emits at most one
\* event
C12_NoDoubleWrapping ==
  /\ \A i \in 1..Len(proxies) : proxies[i].target.t # "proxy"
  /\ last.op \in {"get", "set", "apply", "construct", "deleteProperty"}
       => Len(events) <= 1

\* C13: a value read with key k from a wrapper of path P is a wrapper of
\* path P + [k], and every get, set and deleteProperty event carries the
\* route by which the caller reached the value, followed by the key; also
\* for an object that is reachable under two keys and was read through both
C13_PathIsRoute ==
  writes = 0 =>
    /\ (/\ last.op = "get" /\ last.k = "ret"
        /\ ThroughWrapper
        /\ last.v.t = "proxy")
       => proxies[last.v.v].path = Append(proxies[last.via.v].path, last.prop)
    /\ (/\ last.op \in {"get", "set", "deleteProperty"}
        /\ ThroughWrapper)
       => \A i \in 1..Len(events) : events[i].path = Append(last.chain, last.prop)

\* the path of the events the wrapper the caller used emits for last.prop
\* passes the filter
Watched ==
  shouldWatch(env, pathToAccessor(Append(proxies[last.via.v].path, last.prop)))

\* C14 as stated: when onEvent receives the set event of a write that
\* succeeds, the target already holds the written value
C14_WriteBeforeEvent ==
  (/\ last.op = "set"
   /\ ThroughWrapper
   /\ last.refv = Bool(TRUE))
  => \A i \in 1..Len(events) : events[i].held = Data(last.arg)

\* C14: the set trap emits the set event first and performs the write
\* afterwards: when onEvent receives the event the target still holds what
\* it held before the write, the event is emitted whether the write then
\* succeeds or fails, and the trap returns the outcome of the write
C14_EventBeforeWrite ==
  (last.op = "set" /\ ThroughWrapper)
  => /\ \A i \in 1..Len(events) :
          /\ events[i].type = "set"
          /\ events[i].value = last.arg
          /\ events[i].held = last.before
     /\ Watched => Len(events) >= 1
     /\ last.k = "ret" /\ last.v = last.refv

\* a write that replaces a value: onEvent found the old value, the target
\* holds the new one
C14_Witness ==
  /\ last.op = "set" /\ ThroughWrapper
  /\ last.refv = Bool(TRUE)
  /\ Len(events) = 1
  /\ events[1].held = Data(Prim(1))
  /\ Held(Cur, last.via, last.prop) = Data(Prim(9))

\* C19: the deleteProperty trap emits its event, with the path of the
\* wrapper followed by the key, before the deletion: when onEvent receives
\* the event the property is as it was before, the event is emitted also
\* when the deletion fails, and the trap returns the outcome of the
\* deletion
C19_DeleteAfterEvent ==
  (last.op = "deleteProperty" /\ ThroughWrapper)
  => /\ \A i \in 1..Len(events) :
          /\ events[i].type = "deleteProperty"
          /\ events[i].held = last.before
     /\ Watched =>
          /\ Len(events) >= 1
          /\ events[1].path = Append(proxies[last.via.v].path, last.prop)
     /\ last.k = "ret" /\ last.v = last.refv

\* a property was deleted: onEvent found it present, the target has it no
\* more
C19_Witness ==
  /\ last.op = "deleteProperty" /\ ThroughWrapper
  /\ last.v = Bool(TRUE)
  /\ Len(events) = 1
  /\ events[1].held # Absent
  /\ Held(Cur, last.via, last.prop) = Absent

\* C17: processingObjects is empty whenever an operation has returned or
\* thrown, and createDetector with a function as onEvent does not throw:
\* it returns a wrapper, or the target itself with nothing registered for
\* it in objToWrapper
C17_CycleGuard ==
  /\ processingObjects = {}
  /\ (last.op = "create" /\ last.onEventIsFunction)
       => /\ last.k = "ret"
          /\ last.v.t # "proxy" =>
                /\ last.v = last.arg
                /\ last.arg \notin DOMAIN objToWrapper

\* C18: no wrapper stands for a promise and objToWrapper has no promise
\* as a key; a promise that a read, a call or a construction produces, or
\* that is handed to createDetector as the target, reaches the caller as
\* the promise itself
C18_PromiseNeverWrapped ==
  /\ \A i \in 1..Len(proxies) : ~isPromise(Cur, proxies[i].target)
  /\ \A obj \in DOMAIN objToWrapper : ~isPromise(Cur, obj)
  /\ (/\ last.op \in {"get", "apply", "construct"}
      /\ ThroughWrapper
      /\ last.refk = "ret" /\ isPromise(Cur, last.refv))
     => last.k = "ret" /\ last.v = last.refv
  /\ (/\ last.op = "create" /\ last.onEventIsFunction
      /\ isPromise(Cur, last.arg))
     => last.k = "ret" /\ last.v = last.arg

\* a construction through a wrapper produced a promise
C18_Witness ==
  /\ last.op = "construct" /\ last.k = "ret" /\ ThroughWrapper
  /\ last.v.t = "obj" /\ isPromise(Cur, last.v)
  /\ Len(events) = 1
  /\ events[1].isPromise = Bool(TRUE)

(***************************************************************************)
(* Properties of the tracking of promises, checked under SpecAsync.        *)
(***************************************************************************)
\* C15: for calls that are pending together and settle in any order, the
\* promise reaches the caller as the promise the function returned, the
\* callbacks of the caller receive what the promise settled with, whatever
\* onEvent does, no callback of the session throws, and every settlement
\* event carries the path and the arguments of an apply event of its own
\* call and the outcome of the promise of that call
C15_ObservationalSettlement ==
  /\ (/\ last.op = "apply"
      /\ last.refk = "ret" /\ isPromise(Cur, last.refv))
     => last.k = "ret" /\ last.v = last.refv
  /\ \A i \in 1..Len(reactions) : objs[reactions[i].p].ps = "pending"
  /\ last.op = "consumer"
       => /\ last.k = objs[last.arg.v].ps
          /\ last.v = objs[last.arg.v].pv
          /\ loud.last = last
  /\ last.op = "job"
       => /\ last.k = "ret"
          /\ loud.last.k = "ret"
          /\ \A i \in 1..Len(events) :
                /\ events[i].call \in 1..Len(callLog)
                /\ events[i].path \in callLog[events[i].call].paths
                /\ events[i].args = Undef
                /\ events[i].isPromise = Bool(TRUE)
                /\ events[i].type =
                     (IF objs[callLog[events[i].call].promise.v].ps = "fulfilled"
                        THEN "apply:resolved" ELSE "apply:rejected")
                /\ objs[callLog[events[i].call].promise.v].pv =
                     (IF events[i].type = "apply:resolved"
                        THEN events[i].result ELSE events[i].error)

\* two calls were pending together; the second has settled and is
\* reported while the first is still pending
C15_Witness ==
  /\ last.op = "job"
  /\ Len(callLog) = 2
  /\ objs[callLog[1].promise.v].ps = "pending"
  /\ Len(events) = 1
  /\ events[1].call = 2
  /\ events[1].path = proxies[callLog[2].via.v].path

\* C20: the timestamp of every event is the time at which onEvent
\* receives it; that of an apply:resolved or apply:rejected event is the
\* time of the settlement callback, later than that of the apply event if
\* time has passed since the call
C20_TimestampIsEventTime ==
  last.op \in {"get", "set", "apply", "construct", "deleteProperty", "job"}
  => \A i \in 1..Len(events) : events[i].timestamp = now

(***************************************************************************)
(* Properties of the pure functions, checked under SpecRender.             *)
(***************************************************************************)
\* the rendering of one segment as the documentation of the accessor has
\* it: a marker verbatim, a number in brackets, an identifier bare or after
\* a dot, any other key as a quoted literal in brackets
DocumentedSegment(segment, index) ==
  IF segment \in {SYNC_RESULT, CONSTRUCTED} THEN segment.s
  ELSE IF segment.k = "num" \/ AllDigits(segment.s)
    THEN <<"[">> \o segment.s \o <<"]">>
  ELSE IF isValidIdentifier(segment.s)
    THEN (IF index = 0 THEN segment.s ELSE <<".">> \o segment.s)
  ELSE <<"[">> \o JsonStringify(segment.s) \o <<"]">>

RECURSIVE DocumentedAccessor(_, _)
DocumentedAccessor(path, i) ==
  IF i > Len(path) THEN <<>>
  ELSE DocumentedSegment(path[i], i - 1) \o DocumentedAccessor(path, i + 1)

TextKeysOnly(path) == \A i \in 1..Len(path) : path[i].k \in {"str", "num"}

\* C11: the accessor of a path of text and number segments is the
\* concatenation of its segments, each rendered bare (identifier at index
\* 0), after a dot (identifier later), as [n] (number), verbatim (one of the
\* two markers) or as a quoted literal in brackets (any other key)
C11_AccessorRendering ==
  (last.op = "pathToAccessor" /\ TextKeysOnly(chain))
  => last.v = Text(DocumentedAccessor(chain, 1))

\* a pattern matches a text as documented: a literal p matches p itself
\* and what continues p with a dot or an opening bracket, a regular
\* expression matches what contains it
DocumentedMatch(pattern, text) ==
  IF pattern.k = "str"
    THEN \/ text = pattern.s
         \/ /\ Len(text) > Len(pattern.s)
            /\ SubSeq(text, 1, Len(pattern.s)) = pattern.s
            /\ text[Len(pattern.s) + 1] \in {".", "["}
  ELSE pattern.k = "re" /\ Contains(text, pattern.s)

AnyMatch(list, text) ==
  \E i \in 1..Len(list.pats) : DocumentedMatch(list.pats[i], text)

\* C16: an accessor is rejected if an include list is given, even an empty
\* one, and none of its patterns matches; otherwise it is rejected if an
\* exclude list is given and one of its patterns matches; otherwise it is
\* accepted.  A literal matches only itself and what continues it with a
\* dot or a bracket
C16_FilterDecision ==
  last.op = "shouldWatch" =>
    last.v = Bool(IF env.include.on /\ ~AnyMatch(env.include, last.arg.v) THEN FALSE
                  ELSE IF env.exclude.on /\ AnyMatch(env.exclude, last.arg.v) THEN FALSE
                  ELSE TRUE)

\* a.b passes the include list [a] and is rejected by the exclude list [a.b]
C16_Witness ==
  /\ last.op = "shouldWatch"
  /\ env.include = List(<<Lit(TextA)>>)
  /\ env.exclude = List(<<Lit(TextAB)>>)
  /\ last.arg = Text(TextAB)
  /\ last.v = Bool(FALSE)

====
